---- MODULE Spec2Model ----
(***************************************************************************)
(* Model of src/lib.rs: the two wasm-exported functions                    *)
(*     add(a: i32, b: i32) -> i32      and     greet(name: &str) -> String *)
(* and the browser console that add writes to on overflow.                 *)
(*                                                                         *)
(* A caller issues a call, the call runs its steps, and the caller then    *)
(* holds the returned value.  Strings are sequences of UTF-8 bytes, as a   *)
(* Rust &str / String is; i32 values are TLA+ integers kept inside         *)
(* [-2^31, 2^31-1], with the 32-bit addition done on 16-bit limbs so that  *)
(* the wrap-around of the machine addition is computed and not assumed.    *)
(***************************************************************************)
EXTENDS Integers, Sequences, FiniteSets

VARIABLES
    pc,         \* pc[c]: where caller c's current call stands
    op,         \* op[c]: "add" | "greet" | "none", the function c called last
    a, b,       \* a[c], b[c]: the arguments of c's add call
    name,       \* name[c]: the argument of c's greet call (UTF-8 bytes)
    addRet,     \* addRet[c]: the i32 returned by c's add call
    greetRet,   \* greetRet[c]: the String returned by c's greet call (UTF-8 bytes)
    console,    \* the logging sink: the sequence of messages console.error received
    calls,      \* number of calls issued so far (bounded by MaxCalls)
    emitted,    \* history: emitted[c] = messages c's current call has sent to the sink
    overflowed  \* history: number of add calls issued whose exact sum leaves the i32 range

vars == <<pc, op, a, b, name, addRet, greetRet, console, calls, emitted, overflowed>>

---------------------------------------------------------------------------
(* Bounds of the model. *)

\* Callers that may have a call in flight at the same time (SpecConc).
NumCallers == 2

\* Calls issued in one behaviour.
MaxCalls == 3

---------------------------------------------------------------------------
(* i32 *)

I32_BITS == 32

I32_MAX == 2147483647

I32_MIN == -I32_MAX - 1

I32 == I32_MIN .. I32_MAX

\* One 16-bit limb: 32-bit words are handled as a high and a low limb.
Limb == 2 ^ (I32_BITS \div 2)

\* The two's-complement bit pattern of x as <<high limb, low limb>>, both unsigned.
Bits(x) == << (x \div Limb) % Limb, x % Limb >>

\* The i32 whose two's-complement bit pattern is w.
FromBits(w) ==
    IF w[1] >= Limb \div 2 THEN (w[1] - Limb) * Limb + w[2]
                           ELSE w[1] * Limb + w[2]

\* A 32-bit addition that loses the carry from the low limb into the high one.
wrapping_add_nocarry(x, y) ==
    LET lo == Bits(x)[2] + Bits(y)[2]
        hi == Bits(x)[1] + Bits(y)[1]
    IN  FromBits(<< hi % Limb, lo % Limb >>)

\* i32::wrapping_add: the 32-bit machine addition, the carry out of bit 31 dropped.
wrapping_add(x, y) ==
    LET lo == Bits(x)[2] + Bits(y)[2]
        hi == Bits(x)[1] + Bits(y)[1] + (lo \div Limb)
    IN  FromBits(<< hi % Limb, lo % Limb >>)

\* An overflowing_add that reports the unsigned carry out of bit 31 in place
\* of the signed overflow.
overflowing_add_carry(x, y) ==
    LET lo == Bits(x)[2] + Bits(y)[2]
        hi == Bits(x)[1] + Bits(y)[1] + (lo \div Limb)
    IN  << FromBits(<< hi % Limb, lo % Limb >>), hi >= Limb >>

\* i32::overflowing_add: the wrapped sum and the signed-overflow flag
\* (the operands have the same sign and the wrapped sum has the other one).
overflowing_add(x, y) ==
    LET r == wrapping_add(x, y)
    IN  << r, ((x < 0) = (y < 0)) /\ ((r < 0) # (x < 0)) >>

\* Option<i32>
None == << >>

Some(v) == << v >>

\* A checked_add that never reports the overflow: the wrapped sum, as a + b
\* gives in a release build.
checked_add_wrapping(x, y) == Some(overflowing_add(x, y)[1])

\* i32::checked_add (lib.rs:7): None on overflow, Some(sum) otherwise.
checked_add(x, y) ==
    LET r == overflowing_add(x, y)
    IN  IF r[2] THEN None ELSE Some(r[1])

---------------------------------------------------------------------------
(* str / String as UTF-8 bytes *)

\* The UTF-8 encoding of one Unicode scalar value (what a Rust str stores).
Utf8(cp) ==
    IF cp < 128 THEN << cp >>
    ELSE IF cp < 2048 THEN << 192 + (cp \div 64), 128 + (cp % 64) >>
    ELSE IF cp < 65536 THEN
        << 224 + (cp \div 4096), 128 + ((cp \div 64) % 64), 128 + (cp % 64) >>
    ELSE << 240 + (cp \div 262144), 128 + ((cp \div 4096) % 64),
            128 + ((cp \div 64) % 64), 128 + (cp % 64) >>

\* The str holding the scalar values of s, in order.
RECURSIVE Str(_)
Str(s) == IF s = << >> THEN << >> ELSE Utf8(Head(s)) \o Str(Tail(s))

\* The str holding n copies of the scalar value cp.
Repeat(cp, n) ==
    LET w == Len(Utf8(cp))
    IN  [i \in 1 .. n * w |-> Utf8(cp)[((i - 1) % w) + 1]]

\* A length counted in characters (chars().count()) in place of bytes.
len_chars(s) == Cardinality({i \in 1 .. Len(s) : s[i] \div 64 # 2})

\* str::len (lib.rs:16): the length in bytes.
len(s) == Len(s)

\* str::chars().count(): the number of scalar values, i.e. of bytes that are
\* not continuation bytes (10xxxxxx).
chars_count(s) == Cardinality({i \in 1 .. Len(s) : s[i] \div 64 # 2})

\* The length limit of greet (lib.rs:16).
MAX_NAME_LEN == 1000

\* "Error: Input too long" (lib.rs:17)
ErrorTooLong ==
    Str(<<69, 114, 114, 111, 114, 58, 32, 73, 110, 112, 117, 116, 32,
          116, 111, 111, 32, 108, 111, 110, 103>>)

\* The literal pieces of the format string "Hello, {}!" (lib.rs:19).
HelloPieces == << Str(<<72, 101, 108, 108, 111, 44, 32>>), Str(<<33>>) >>

\* A format that leaves the argument out.
format_hello_noarg(s) == HelloPieces[1] \o HelloPieces[2]

\* format!("Hello, {}!", name) (lib.rs:19): the pieces with the argument's
\* Display output, which for a str without width or precision is the str itself.
format_hello(s) == HelloPieces[1] \o s \o HelloPieces[2]

\* A greet that rejects a name of exactly the limit too (>= for >).
greet_ge(s) == IF len(s) >= MAX_NAME_LEN THEN ErrorTooLong ELSE format_hello(s)

\* A greet that cuts an oversized name to the limit instead of rejecting it.
greet_truncates(s) ==
    IF len(s) > MAX_NAME_LEN THEN format_hello(SubSeq(s, 1, MAX_NAME_LEN))
                             ELSE format_hello(s)

\* greet (lib.rs:14-20) as a function of its argument.
greet(s) == IF len(s) > MAX_NAME_LEN THEN ErrorTooLong ELSE format_hello(s)

\* The message add sends to console.error (lib.rs:8).
OverflowMsg == "Integer overflow occurred"

---------------------------------------------------------------------------
(* Inputs *)

\* Addends: the ends of the range, the values next to them, small values,
\* values around a limb boundary and around half the range.
I32Samples ==
    { I32_MIN, I32_MIN + 1, -(2 ^ 30), -65536, -3, -1, 0, 1, 2, 3,
      65535, 2 ^ 30, I32_MAX - 1, I32_MAX }

\* Names: empty, plain, with format and control characters, the error text
\* itself, and one-, two- and three-byte characters around the limit.
NameSamples ==
    { << >>,
      Str(<<87, 111, 114, 108, 100>>),
      Str(<<123, 125, 10, 37, 115, 233, 8364, 128512>>),
      ErrorTooLong,
      Repeat(120, MAX_NAME_LEN - 1),
      Repeat(120, MAX_NAME_LEN),
      Repeat(120, MAX_NAME_LEN + 1),
      Repeat(233, MAX_NAME_LEN \div 2),
      Repeat(233, (MAX_NAME_LEN \div 2) + 1),
      Repeat(8364, MAX_NAME_LEN \div 3),
      Repeat(8364, (MAX_NAME_LEN \div 3) + 1),
      Repeat(111, MAX_NAME_LEN + 2) }

\* The smaller input sets of the concurrent specification.
ConcI32Samples == { -1, 0, 1, I32_MAX }

ConcNameSamples == { Str(<<87, 111, 114, 108, 100>>), Repeat(120, MAX_NAME_LEN + 1) }

\* The exact (unbounded) sum of x and y lies in the i32 range.  Computed on
\* the halves, so that no intermediate value leaves the range:
\* floor((x + y) / 2) = x \div 2 + y \div 2 + (x % 2 + y % 2) \div 2.
ExactSumFits(x, y) ==
    LET h == (x \div 2) + (y \div 2) + (((x % 2) + (y % 2)) \div 2)
    IN  h >= -(2 ^ 30) /\ h <= 2 ^ 30 - 1

---------------------------------------------------------------------------
(* The state machine *)

Init(P) ==
    /\ pc = [c \in P |-> "idle"]
    /\ op = [c \in P |-> "none"]
    /\ a = [c \in P |-> 0]
    /\ b = [c \in P |-> 0]
    /\ name = [c \in P |-> << >>]
    /\ addRet = [c \in P |-> 0]
    /\ greetRet = [c \in P |-> << >>]
    /\ console = << >>
    /\ calls = 0
    /\ emitted = [c \in P |-> 0]
    /\ overflowed = 0

\* Caller c has no call in flight and may issue one.
CanCall(c) == pc[c] \in {"idle", "returned"} /\ calls < MaxCalls

\* The caller invokes add(x, y) (lib.rs:5).
CallAdd(c, x, y) ==
    /\ CanCall(c)
    /\ pc' = [pc EXCEPT ![c] = "add"]
    /\ op' = [op EXCEPT ![c] = "add"]
    /\ a' = [a EXCEPT ![c] = x]
    /\ b' = [b EXCEPT ![c] = y]
    /\ name' = [name EXCEPT ![c] = << >>]
    /\ addRet' = [addRet EXCEPT ![c] = 0]
    /\ greetRet' = [greetRet EXCEPT ![c] = << >>]
    /\ calls' = calls + 1
    /\ emitted' = [emitted EXCEPT ![c] = 0]
    /\ overflowed' = overflowed + (IF ExactSumFits(x, y) THEN 0 ELSE 1)
    /\ UNCHANGED console

\* The caller invokes greet(n) (lib.rs:14).
CallGreet(c, n) ==
    /\ CanCall(c)
    /\ pc' = [pc EXCEPT ![c] = "greet"]
    /\ op' = [op EXCEPT ![c] = "greet"]
    /\ a' = [a EXCEPT ![c] = 0]
    /\ b' = [b EXCEPT ![c] = 0]
    /\ name' = [name EXCEPT ![c] = n]
    /\ addRet' = [addRet EXCEPT ![c] = 0]
    /\ greetRet' = [greetRet EXCEPT ![c] = << >>]
    /\ calls' = calls + 1
    /\ emitted' = [emitted EXCEPT ![c] = 0]
    /\ UNCHANGED <<console, overflowed>>

\* An add that unwraps the checked sum: None panics and the call never returns.
AddChecked_unwrap(c) ==
    /\ pc[c] = "add"
    /\ LET r == checked_add(a[c], b[c])
       IN  IF r = None
           THEN /\ pc' = [pc EXCEPT ![c] = "panicked"]
                /\ UNCHANGED addRet
           ELSE /\ pc' = [pc EXCEPT ![c] = "returned"]
                /\ addRet' = [addRet EXCEPT ![c] = r[1]]
    /\ UNCHANGED <<op, a, b, name, greetRet, console, calls, emitted, overflowed>>

\* lib.rs:7: a.checked_add(b).unwrap_or_else(..): Some(v) is returned as v,
\* None runs the closure.
AddChecked(c) ==
    /\ pc[c] = "add"
    /\ LET r == checked_add(a[c], b[c])
       IN  IF r = None
           THEN /\ pc' = [pc EXCEPT ![c] = "add_closure"]
                /\ UNCHANGED addRet
           ELSE /\ pc' = [pc EXCEPT ![c] = "returned"]
                /\ addRet' = [addRet EXCEPT ![c] = r[1]]
    /\ UNCHANGED <<op, a, b, name, greetRet, console, calls, emitted, overflowed>>

\* A closure that logs the overflow only the first time, through a shared flag.
AddClosure_LogOnce(c) ==
    /\ pc[c] = "add_closure"
    /\ IF console = << >>
       THEN /\ console' = Append(console, OverflowMsg)
            /\ emitted' = [emitted EXCEPT ![c] = @ + 1]
       ELSE UNCHANGED <<console, emitted>>
    /\ addRet' = [addRet EXCEPT ![c] = 0]
    /\ pc' = [pc EXCEPT ![c] = "returned"]
    /\ UNCHANGED <<op, a, b, name, greetRet, calls, overflowed>>

\* lib.rs:8-9: the closure logs to console.error and yields 0.
AddClosure(c) ==
    /\ pc[c] = "add_closure"
    /\ console' = Append(console, OverflowMsg)
    /\ emitted' = [emitted EXCEPT ![c] = @ + 1]
    /\ addRet' = [addRet EXCEPT ![c] = 0]
    /\ pc' = [pc EXCEPT ![c] = "returned"]
    /\ UNCHANGED <<op, a, b, name, greetRet, calls, overflowed>>

\* A greet that reports the oversized name on the console as well.
Greet_Logs(c) ==
    /\ pc[c] = "greet"
    /\ greetRet' = [greetRet EXCEPT ![c] = greet(name[c])]
    /\ pc' = [pc EXCEPT ![c] = "returned"]
    /\ IF len(name[c]) > MAX_NAME_LEN
       THEN /\ console' = Append(console, "Error: Input too long")
            /\ emitted' = [emitted EXCEPT ![c] = @ + 1]
       ELSE UNCHANGED <<console, emitted>>
    /\ UNCHANGED <<op, a, b, name, addRet, calls, overflowed>>

\* lib.rs:14-20: greet runs to its return.
Greet(c) ==
    /\ pc[c] = "greet"
    /\ greetRet' = [greetRet EXCEPT ![c] = greet(name[c])]
    /\ pc' = [pc EXCEPT ![c] = "returned"]
    /\ UNCHANGED <<op, a, b, name, addRet, console, calls, emitted, overflowed>>

\* One step of caller c's call in flight.
Step(c) == AddChecked(c) \/ AddClosure(c) \/ Greet(c)

\* A single caller: the calls run one after the other.
SeqCallers == {1}

Next ==
    \/ \E c \in SeqCallers, x \in I32Samples, y \in I32Samples : CallAdd(c, x, y)
    \/ \E c \in SeqCallers, n \in NameSamples : CallGreet(c, n)
    \/ \E c \in SeqCallers : AddChecked(c)
    \/ \E c \in SeqCallers : AddClosure(c)
    \/ \E c \in SeqCallers : Greet(c)

Spec == Init(SeqCallers) /\ [][Next]_vars

\* The same, with every started call running on.
FairSpec == Spec /\ \A c \in SeqCallers : WF_vars(Step(c))

\* Several callers, the steps of their calls interleaved in any order.
ConcCallers == 1 .. NumCallers

NextConc ==
    \/ \E c \in ConcCallers, x \in ConcI32Samples, y \in ConcI32Samples : CallAdd(c, x, y)
    \/ \E c \in ConcCallers, n \in ConcNameSamples : CallGreet(c, n)
    \/ \E c \in ConcCallers : AddChecked(c)
    \/ \E c \in ConcCallers : AddClosure(c)
    \/ \E c \in ConcCallers : Greet(c)

SpecConc == Init(ConcCallers) /\ [][NextConc]_vars

---------------------------------------------------------------------------
(* Properties *)

\* Caller c holds the value returned by its call of f.
Returned(c, f) == pc[c] = "returned" /\ op[c] = f

\* The bytes of "Hello, " + n + "!", written out from the spec's text.
HelloForm(n) == <<72, 101, 108, 108, 111, 44, 32>> \o n \o <<33>>

\* The bytes of "Error: Input too long", written out from the spec's text.
ErrorForm ==
    <<69, 114, 114, 111, 114, 58, 32, 73, 110, 112, 117, 116, 32,
      116, 111, 111, 32, 108, 111, 110, 103>>

\* add calls in flight whose exact sum overflows and whose message is not yet sent.
PendingOverflows ==
    Cardinality({c \in DOMAIN pc :
        pc[c] \in {"add", "add_closure"} /\ ~ExactSumFits(a[c], b[c])})

\* C1: whenever the exact sum of a and b lies in [-2^31, 2^31-1], add(a, b)
\* returns exactly a + b (add(2, 3) = 5), and every value add returns is an i32.
C1_AddReturnsExactSum ==
    \A c \in DOMAIN pc :
        Returned(c, "add") =>
            /\ addRet[c] \in I32
            /\ ExactSumFits(a[c], b[c]) => addRet[c] = a[c] + b[c]
            /\ (a[c] = 2 /\ b[c] = 3) => addRet[c] = 5

\* C1 witness: add(-2^30, -2^30) has returned -2^31, the lowest sum that fits.
C1_Witness ==
    \E c \in DOMAIN pc :
        /\ Returned(c, "add")
        /\ a[c] = -(2 ^ 30) /\ b[c] = -(2 ^ 30)
        /\ ExactSumFits(a[c], b[c])
        /\ addRet[c] = I32_MIN

\* C2: whenever the exact sum of a and b lies outside [-2^31, 2^31-1], above
\* or below, add(a, b) returns 0 (never the wrapped value) and the call has
\* sent exactly one message, "Integer overflow occurred", to the sink.
C2_OverflowReturnsZeroAndLogsOnce ==
    \A c \in DOMAIN pc :
        (Returned(c, "add") /\ ~ExactSumFits(a[c], b[c])) =>
            /\ addRet[c] = 0
            /\ emitted[c] = 1
            /\ Len(console) >= 1
            /\ console[Len(console)] = "Integer overflow occurred"

\* C2 witness: add(i32::MIN, -1) has returned 0 with one message sent.
C2_Witness ==
    \E c \in DOMAIN pc :
        /\ Returned(c, "add")
        /\ a[c] = I32_MIN /\ b[c] = -1
        /\ ~ExactSumFits(a[c], b[c])
        /\ addRet[c] = 0
        /\ emitted[c] = 1

\* C3: for a name of at most 1000 bytes (the empty name and a name of exactly
\* 1000 bytes included), greet returns "Hello, " + name + "!" with the name
\* verbatim: the name is the part of the result after the first 7 bytes, and
\* the result is 8 longer than the name, in bytes and in characters.
C3_GreetInterpolatesVerbatim ==
    \A c \in DOMAIN pc :
        (Returned(c, "greet") /\ Len(name[c]) <= 1000) =>
            /\ greetRet[c] = HelloForm(name[c])
            /\ Len(greetRet[c]) = Len(name[c]) + 8
            /\ chars_count(greetRet[c]) = chars_count(name[c]) + 8
            /\ SubSeq(greetRet[c], 8, 7 + Len(name[c])) = name[c]

\* C3 witness: a name of exactly 1000 bytes has been greeted.
C3_Witness ==
    \E c \in DOMAIN pc :
        /\ Returned(c, "greet")
        /\ Len(name[c]) = 1000
        /\ Len(greetRet[c]) = 1008
        /\ greetRet[c] = HelloForm(name[c])

\* n occurs in s as a run of consecutive bytes.
Occurs(n, s) ==
    \E i \in 1 .. Len(s) - Len(n) + 1 : SubSeq(s, i, i + Len(n) - 1) = n

\* C4: for a name of more than 1000 bytes (1001 included), greet returns the
\* literal "Error: Input too long" whatever the name holds, and the name is
\* not contained in the result.
C4_OversizedNameYieldsError ==
    \A c \in DOMAIN pc :
        (Returned(c, "greet") /\ Len(name[c]) > 1000) =>
            /\ greetRet[c] = ErrorForm
            /\ ~Occurs(name[c], greetRet[c])

\* C4 witness: a name of exactly 1001 bytes has been answered by the error text.
C4_Witness ==
    \E c \in DOMAIN pc :
        /\ Returned(c, "greet")
        /\ Len(name[c]) = 1001
        /\ greetRet[c] = ErrorForm

\* C5: the result of greet is never empty and is exactly one of the two forms
\* "Hello, {name}!" and "Error: Input too long", which never coincide; it is
\* the error text if and only if the name is longer than 1000 bytes.
C5_GreetExactlyOneForm ==
    \A c \in DOMAIN pc :
        Returned(c, "greet") =>
            /\ Len(greetRet[c]) > 0
            /\ HelloForm(name[c]) # ErrorForm
            /\ (greetRet[c] = HelloForm(name[c])) # (greetRet[c] = ErrorForm)
            /\ (greetRet[c] = ErrorForm) <=> (Len(name[c]) > 1000)

\* C5 witness: the name "Error: Input too long" itself has been greeted, and
\* the result is the greeting form, not the error text.
C5_Witness ==
    \E c \in DOMAIN pc :
        /\ Returned(c, "greet")
        /\ name[c] = ErrorForm
        /\ greetRet[c] = HelloForm(ErrorForm)
        /\ greetRet[c] # ErrorForm

\* C6 as stated: add returns 0 if and only if the exact sum overflows.
C6_ZeroIffOverflow ==
    \A c \in DOMAIN pc :
        Returned(c, "add") => ((addRet[c] = 0) <=> ~ExactSumFits(a[c], b[c]))

\* C6 as amended: add returns 0 if and only if the exact sum overflows or is
\* itself 0; a returned 0 identifies an overflow only when a + b is not 0, and
\* a returned non-zero value always means that no overflow happened.
C6_ZeroIffOverflowOrZeroSum ==
    \A c \in DOMAIN pc :
        Returned(c, "add") =>
            ((addRet[c] = 0) <=>
                (~ExactSumFits(a[c], b[c])
                    \/ (ExactSumFits(a[c], b[c]) /\ a[c] + b[c] = 0)))

\* C6 witness: add(1, -1) has returned 0 without any overflow or message.
C6_Witness ==
    \E c \in DOMAIN pc :
        /\ Returned(c, "add")
        /\ a[c] = 1 /\ b[c] = -1
        /\ ExactSumFits(a[c], b[c])
        /\ addRet[c] = 0
        /\ emitted[c] = 0

\* The outcome of caller c's finished call is one of the three of the taxonomy.
Outcome(c) ==
    \/ /\ op[c] = "add" /\ ~ExactSumFits(a[c], b[c])
       /\ addRet[c] = 0 /\ emitted[c] = 1
    \/ /\ op[c] = "add" /\ ExactSumFits(a[c], b[c])
       /\ addRet[c] = a[c] + b[c] /\ emitted[c] = 0
    \/ /\ op[c] = "greet" /\ Len(name[c]) > 1000
       /\ greetRet[c] = ErrorForm /\ emitted[c] = 0
    \/ /\ op[c] = "greet" /\ Len(name[c]) <= 1000
       /\ greetRet[c] = HelloForm(name[c]) /\ emitted[c] = 0

\* C7: both operations are total.  A call is only ever running or returned
\* (there is no panicked or failed state), every call that has started
\* returns, the value returned is an i32 (add) or a string of bytes (greet),
\* and the outcome is one of: overflow -> 0 plus one message, oversized name
\* -> the error text, otherwise the normal result.
C7_TotalAndClassified ==
    /\ [](\A c \in SeqCallers :
            /\ pc[c] \in {"idle", "add", "add_closure", "greet", "returned"}
            /\ pc[c] = "returned" =>
                /\ Outcome(c)
                /\ addRet[c] \in I32
                /\ \A i \in 1 .. Len(greetRet[c]) : greetRet[c][i] \in 0 .. 255)
    /\ \A c \in SeqCallers :
            (pc[c] \in {"add", "add_closure", "greet"}) ~> (pc[c] = "returned")

\* C7 witness: the third call of a run has returned, after an overflow was logged.
C7_Witness ==
    \E c \in SeqCallers :
        /\ pc[c] = "returned"
        /\ calls = 3
        /\ Len(console) >= 1
        /\ Outcome(c)

\* C8: with several callers and their calls' steps interleaved in any order,
\* every call returns what it returns when run alone, a function of its own
\* arguments (two callers with the same call hold the same result), and once
\* no call is in flight the sink holds as many messages as add calls overflowed.
C8_CallsIndependent ==
    /\ \A c \in ConcCallers :
        /\ Returned(c, "add") =>
              addRet[c] = IF ExactSumFits(a[c], b[c]) THEN a[c] + b[c] ELSE 0
        /\ Returned(c, "greet") =>
              greetRet[c] = IF Len(name[c]) > 1000 THEN ErrorForm
                                                   ELSE HelloForm(name[c])
    /\ \A c, d \in ConcCallers :
        (pc[c] = "returned" /\ pc[d] = "returned" /\ op[c] = op[d]
            /\ a[c] = a[d] /\ b[c] = b[d] /\ name[c] = name[d]) =>
                (addRet[c] = addRet[d] /\ greetRet[c] = greetRet[d])
    /\ (\A c \in ConcCallers : pc[c] \in {"idle", "returned"}) =>
            Len(console) = overflowed

\* C8 witness: two callers have each returned from an overflowing add, and a
\* third call was made besides; the sink holds the two messages.
C8_Witness ==
    /\ \A c \in {1, 2} :
        Returned(c, "add") /\ ~ExactSumFits(a[c], b[c]) /\ addRet[c] = 0
    /\ calls = 3
    /\ overflowed = 2
    /\ Len(console) = 2

\* C9: the sink changes only by an overflowing add appending its one message:
\* an add whose sum fits and a greet on either path leave it unchanged, so
\* every message on the sink is "Integer overflow occurred" and there is one
\* for each overflowing add call that has logged.
C9_SinkChangesOnlyOnOverflow ==
    /\ [][ /\ console' # console =>
                \E c \in DOMAIN pc :
                    /\ op[c] = "add" /\ ~ExactSumFits(a[c], b[c])
                    /\ pc[c] # "returned" /\ pc'[c] = "returned"
                    /\ console' = Append(console, "Integer overflow occurred")
           /\ \A c \in DOMAIN pc :
                (/\ pc[c] # "returned" /\ pc'[c] = "returned"
                 /\ \/ op[c] = "greet"
                    \/ op[c] = "add" /\ ExactSumFits(a[c], b[c]))
                    => console' = console
         ]_vars
    /\ [](/\ \A i \in 1 .. Len(console) : console[i] = "Integer overflow occurred"
          /\ Len(console) + PendingOverflows = overflowed)

\* C9 witness: after an overflowing add and a fitting add, an oversized greet
\* has returned and the sink holds just the one message.
C9_Witness ==
    \E c \in DOMAIN pc :
        /\ Returned(c, "greet")
        /\ Len(name[c]) > 1000
        /\ calls = 3
        /\ overflowed = 1
        /\ console = << "Integer overflow occurred" >>

\* C10: the length greet compares with 1000 is the UTF-8 byte length, not the
\* number of characters: a name of at most 1000 characters that takes more
\* than 1000 bytes gets the error text, and for names of one-byte characters
\* only, the two measures agree and the limit is exactly 1000 characters.
C10_LengthIsUtf8Bytes ==
    \A c \in DOMAIN pc :
        Returned(c, "greet") =>
            /\ (chars_count(name[c]) <= 1000 /\ Len(name[c]) > 1000)
                    => greetRet[c] = ErrorForm
            /\ (Len(name[c]) <= 1000) => greetRet[c] # ErrorForm
            /\ (\A i \in 1 .. Len(name[c]) : name[c][i] < 128) =>
                    /\ chars_count(name[c]) = Len(name[c])
                    /\ (greetRet[c] = ErrorForm) <=> (chars_count(name[c]) > 1000)

\* C10 witness: 501 two-byte characters (1002 bytes) got the error text.
C10_Witness ==
    \E c \in DOMAIN pc :
        /\ Returned(c, "greet")
        /\ chars_count(name[c]) = 501
        /\ Len(name[c]) = 1002
        /\ greetRet[c] = ErrorForm

====
